---- MODULE Spec2Model ----
(***************************************************************************)
(* A model of the ODPS/ODCS validation script                             *)
(* (.github/scripts/validate_odps_odcs.py) and of the command line        *)
(* contract editor (edit_contract.py).                                    *)
(*                                                                         *)
(* Python strings are sequences of one-character strings, so that the     *)
(* string operations of the code (in, count, islower, startswith, lower,  *)
(* split, strip, int, float) are computed and not assumed.  Mapping keys  *)
(* are TLA+ strings.  A parsed YAML/JSON value is a record whose field t   *)
(* is the Python type ("none", "str", "int", "float", "bool", "list",     *)
(* "map") and whose other fields hold the value.                          *)
(***************************************************************************)
EXTENDS Integers, Sequences, FiniteSets, TLC

(***************************************************************************)
(* Python string operations                                                *)
(***************************************************************************)

LowerSeq == <<"a", "b", "c", "d", "e", "f", "g", "h", "i", "j", "k", "l", "m",
              "n", "o", "p", "q", "r", "s", "t", "u", "v", "w", "x", "y", "z">>

UpperSeq == <<"A", "B", "C", "D", "E", "F", "G", "H", "I", "J", "K", "L", "M",
              "N", "O", "P", "Q", "R", "S", "T", "U", "V", "W", "X", "Y", "Z">>

LowerChars == {LowerSeq[i] : i \in DOMAIN LowerSeq}

UpperChars == {UpperSeq[i] : i \in DOMAIN UpperSeq}

DigitSeq == <<"0", "1", "2", "3", "4", "5", "6", "7", "8", "9">>

DigitChars == {DigitSeq[i] : i \in DOMAIN DigitSeq}

\* the ASCII characters str.strip() takes for whitespace;
\* "\\x0b" and "\\x1c" to "\\x1f" stand for the control characters of that
\* name, which have no escape of their own here
SpaceChars ==
    {" ", "\t", "\n", "\r", "\f", "\\x0b", "\\x1c", "\\x1d", "\\x1e", "\\x1f"}

\* str.lower() on one character
LowerOf(c) ==
    IF c \in UpperChars
    THEN LowerSeq[CHOOSE i \in DOMAIN UpperSeq : UpperSeq[i] = c]
    ELSE c

\* str.lower()
Lower(s) == [i \in 1..Len(s) |-> LowerOf(s[i])]

\* sub in s, for strings
Contains(s, sub) ==
    \E i \in 0..(Len(s) - Len(sub)) :
        \A j \in 1..Len(sub) : s[i + j] = sub[j]

\* s.count(c) for a one-character c
RECURSIVE Count(_, _)
Count(s, c) ==
    IF s = <<>> THEN 0
    ELSE (IF Head(s) = c THEN 1 ELSE 0) + Count(Tail(s), c)

\* s.islower(): at least one cased character and no uppercase one
IsLower(s) ==
    /\ \E i \in 1..Len(s) : s[i] \in LowerChars
    /\ \A i \in 1..Len(s) : s[i] \notin UpperChars

\* s.startswith(p)
StartsWith(s, p) ==
    /\ Len(s) >= Len(p)
    /\ \A j \in 1..Len(p) : s[j] = p[j]

\* s.endswith(p): what the glob patterns "*.yaml" and "*.yml" match
EndsWith(s, p) ==
    /\ Len(s) >= Len(p)
    /\ \A j \in 1..Len(p) : s[Len(s) - Len(p) + j] = p[j]

\* s without its leading, and without its trailing, characters of chars
RECURSIVE LStripOf(_, _)
LStripOf(s, chars) ==
    IF s # <<>> /\ Head(s) \in chars THEN LStripOf(Tail(s), chars) ELSE s

RECURSIVE RStripOf(_, _)
RStripOf(s, chars) ==
    IF s # <<>> /\ s[Len(s)] \in chars
    THEN RStripOf(SubSeq(s, 1, Len(s) - 1), chars)
    ELSE s

\* s.lstrip(), s.rstrip(), s.strip()
LStrip(s) == LStripOf(s, SpaceChars)

RStrip(s) == RStripOf(s, SpaceChars)

Strip(s) == RStrip(LStrip(s))

\* the ASCII characters int() and float() skip around a literal: those of
\* str.strip() without "\\x1c" to "\\x1f"
NumberSpaceChars == {" ", "\t", "\n", "\r", "\f", "\\x0b"}

NumberStrip(s) == RStripOf(LStripOf(s, NumberSpaceChars), NumberSpaceChars)

\* s.split(","): the list of the pieces between the commas
RECURSIVE SplitFrom(_, _)
SplitFrom(s, cur) ==
    IF s = <<>> THEN <<cur>>
    ELSE IF Head(s) = "," THEN <<cur>> \o SplitFrom(Tail(s), <<>>)
    ELSE SplitFrom(Tail(s), Append(cur, Head(s)))

SplitComma(s) == SplitFrom(s, <<>>)

YamlExt == <<".", "y", "a", "m", "l">>

YmlExt == <<".", "y", "m", "l">>

DashV == <<"-", "v">>

(***************************************************************************)
(* Parsed YAML / JSON values                                               *)
(***************************************************************************)

\* every value has every field, so that any two values can be compared;
\* the fields a type does not use hold the defaults of Value
NoMap == [k \in {} |-> 0]

Value(t, s, n, d, b, items, m) ==
    [t |-> t, s |-> s, n |-> n, d |-> d, b |-> b, items |-> items, m |-> m]

None == Value("none", <<>>, 0, 1, FALSE, <<>>, NoMap)

\* a string: s is its characters
StrV(s) == Value("str", s, 0, 1, FALSE, <<>>, NoMap)

IntV(n) == Value("int", <<>>, n, 1, FALSE, <<>>, NoMap)

\* the float num / den
FloatV(num, den) == Value("float", <<>>, num, den, FALSE, <<>>, NoMap)

BoolV(b) == Value("bool", <<>>, 0, 1, b, <<>>, NoMap)

ListV(items) == Value("list", <<>>, 0, 1, FALSE, items, NoMap)

\* a mapping: m is the function from its keys to their values
MapV(f) == Value("map", <<>>, 0, 1, FALSE, <<>>, f)

EmptyMap == MapV(NoMap)

Keys(value) == DOMAIN value.m

\* the characters of a mapping key
KeyChars(key) ==
    CASE key = "id" -> <<"i", "d">>
      [] key = "info" -> <<"i", "n", "f", "o">>
      [] key = "version" -> <<"v", "e", "r", "s", "i", "o", "n">>
      [] key = "title" -> <<"t", "i", "t", "l", "e">>
      [] key = "name" -> <<"n", "a", "m", "e">>
      [] key = "count" -> <<"c", "o", "u", "n", "t">>
      [] key = "ratio" -> <<"r", "a", "t", "i", "o">>
      [] key = "active" -> <<"a", "c", "t", "i", "v", "e">>
      [] key = "tags" -> <<"t", "a", "g", "s">>
      [] key = "meta" -> <<"m", "e", "t", "a">>
      [] key = "misc" -> <<"m", "i", "s", "c">>
      [] key = "product" -> <<"p", "r", "o", "d", "u", "c", "t">>
      [] key = "sub" -> <<"s", "u", "b">>
      [] key = "dataContractSpecification" ->
             <<"d", "a", "t", "a", "C", "o", "n", "t", "r", "a", "c", "t",
               "S", "p", "e", "c", "i", "f", "i", "c", "a", "t", "i", "o",
               "n">>

\* sub in repr(value), for a word sub of lowercase letters that occurs in
\* none of None, True, False, inf, nan: it can only lie inside a string or
\* a key of the value
RECURSIVE ReprHas(_, _)
ReprHas(value, sub) ==
    CASE value.t = "str" -> Contains(value.s, sub)
      [] value.t = "list" ->
             \E i \in DOMAIN value.items : ReprHas(value.items[i], sub)
      [] value.t = "map" ->
             \E k \in Keys(value) :
                 Contains(KeyChars(k), sub) \/ ReprHas(value.m[k], sub)
      [] OTHER -> FALSE

(***************************************************************************)
(* JSON Schema documents, and jsonschema.validate                          *)
(*                                                                         *)
(* A schema is a record of the keywords the model knows, in the order     *)
(* "type", "required", "properties":                                       *)
(*   type        "absent" or a JSON type name                              *)
(*   required    the sequence of the required keys                         *)
(*   properties  the sequence of <<key, subschema>> in document order      *)
(*   malformed   the document holds a keyword the metaschema rejects       *)
(*               (check_schema raises SchemaError)                         *)
(*   empty       the document is {}                                        *)
(* A document with keys but none of these keywords, such as               *)
(* {"title": "t"} or {"required": []}, is Schema("absent", <<>>, <<>>).    *)
(***************************************************************************)

Schema(type, required, properties) ==
    [type |-> type, required |-> required, properties |-> properties,
     malformed |-> FALSE, empty |-> FALSE]

MalformedSchema ==
    [type |-> "absent", required |-> <<>>, properties |-> <<>>,
     malformed |-> TRUE, empty |-> FALSE]

\* the document {}
EmptySchema ==
    [type |-> "absent", required |-> <<>>, properties |-> <<>>,
     malformed |-> FALSE, empty |-> TRUE]

\* bool(schema) of a dict: it has a key
Truthy(schema) == ~schema.empty

\* the "type" keyword
TypeMatches(value, type) ==
    CASE type = "string" -> value.t = "str"
      [] type = "number" -> value.t \in {"int", "float"}
      [] type = "integer" -> value.t = "int"
      [] type = "boolean" -> value.t = "bool"
      [] type = "array" -> value.t = "list"
      [] type = "object" -> value.t = "map"
      [] OTHER -> TRUE

\* a ValidationError: the failed keyword, the key or type its message
\* names, absolute_path, and the instance the keyword was applied to;
\* message "<instance> is not of type '<type>'"
TypeError(type, path, instance) ==
    [kw |-> "type", key |-> type, path |-> path, instance |-> instance]

\* message "'<key>' is a required property"; the path is that of the object
RequiredError(key, path, instance) ==
    [kw |-> "required", key |-> key, path |-> path, instance |-> instance]

Required == <<"r", "e", "q", "u", "i", "r", "e", "d">>

\* 'required' in str(e.message)
MessageHasRequired(error) ==
    \/ error.kw = "required"
    \/ error.kw = "type" /\ ReprHas(error.instance, Required)

RECURSIVE RequiredErrors(_, _, _)
RequiredErrors(value, required, path) ==
    IF required = <<>> THEN <<>>
    ELSE (IF Head(required) \in Keys(value)
          THEN <<>> ELSE <<RequiredError(Head(required), path, value)>>)
         \o RequiredErrors(value, Tail(required), path)

\* the errors of one schema on one value, without its properties
LocalErrors(value, schema, path) ==
    (IF TypeMatches(value, schema.type)
     THEN <<>> ELSE <<TypeError(schema.type, path, value)>>)
    \o (IF value.t = "map"
        THEN RequiredErrors(value, schema.required, path) ELSE <<>>)

\* the errors of one schema on one value, in the order of its keywords;
\* the "properties" keyword applies the subschema of each key the value
\* has to the value of that key, at every depth
RECURSIVE Errors(_, _, _)
RECURSIVE PropertyErrors(_, _, _)
Errors(value, schema, path) ==
    LocalErrors(value, schema, path)
    \o PropertyErrors(value, schema.properties, path)

PropertyErrors(value, properties, path) ==
    IF properties = <<>> \/ value.t # "map" THEN <<>>
    ELSE LET key == Head(properties)[1]
             sub == Head(properties)[2]
         IN  (IF key \in Keys(value)
              THEN Errors(value.m[key], sub, Append(path, key))
              ELSE <<>>)
             \o PropertyErrors(value, Tail(properties), path)

\* validator.iter_errors(instance)
IterErrors(instance, schema) == Errors(instance, schema, <<>>)

\* best_match: an error of the shortest path.  Of the errors of one path
\* it is the first; between the paths of that length the releases of the
\* library choose differently (the first error, or the greatest path), and
\* each choice is allowed.
BestMatches(errors) ==
    LET shortest == CHOOSE n \in {Len(errors[i].path) : i \in DOMAIN errors} :
                        \A i \in DOMAIN errors : n <= Len(errors[i].path)
        firsts == {i \in DOMAIN errors :
                      /\ Len(errors[i].path) = shortest
                      /\ \A j \in 1..(i - 1) : errors[j].path # errors[i].path}
    IN  {errors[i] : i \in firsts}

\* the error of a call that raises no ValidationError
NoError == TypeError("absent", <<>>, None)

\* the errors jsonschema.validate can raise on the instance
Choices(instance, schema) ==
    IF schema.malformed \/ IterErrors(instance, schema) = <<>>
    THEN {NoError}
    ELSE BestMatches(IterErrors(instance, schema))

\* jsonschema.validate(instance=..., schema=...): what it raises, best
\* being the error best_match chooses
Validate(instance, schema, best) ==
    IF schema.malformed
    THEN [kind |-> "SchemaError", error |-> NoError]
    ELSE IF IterErrors(instance, schema) = <<>>
    THEN [kind |-> "ok", error |-> NoError]
    ELSE [kind |-> "ValidationError", error |-> best]

(***************************************************************************)
(* The file system and the console                                         *)
(*                                                                         *)
(* A directory entry is [name, kind, doc]:                                 *)
(*   kind "missing"     the path does not exist: exists() is false and     *)
(*                      open() for reading raises FileNotFoundError        *)
(*   kind "nodir"       the same, and the directory of the path does not   *)
(*                      exist either: open() for writing raises it too     *)
(*   kind "readonly"    yaml.safe_load returns doc; open() for writing     *)
(*                      raises PermissionError                             *)
(*   kind "unreadable"  open() raises PermissionError                      *)
(*   kind "badyaml"     yaml.safe_load raises YAMLError                    *)
(*   kind "doc"         yaml.safe_load returns doc (None: an empty file)   *)
(* A console line is [tag, file, path, key]: the print statement, the     *)
(* file it names, and the path and key of a reported validation error.    *)
(***************************************************************************)

File(name, kind, doc) == [name |-> name, kind |-> kind, doc |-> doc]

Msg(tag, file) == [tag |-> tag, file |-> file, path |-> <<>>, key |-> ""]

\* print(f"   Error: {e.message}")
MsgError(file, error) ==
    [tag |-> "Error", file |-> file, path |-> <<>>, key |-> error.key]

\* print(f"   Failed path: {' -> '.join(str(p) for p in e.absolute_path)}")
MsgFailedPath(file, error) ==
    [tag |-> "Failed path", file |-> file, path |-> error.path, key |-> ""]

NoFile == <<>>

\* what a function returns to its caller: the exception that escapes it
\* ("" when none does), its return value, and what it printed
Returns(result, out) == [raised |-> "", result |-> result, out |-> out]

Raises(exception, out) == [raised |-> exception, result |-> FALSE, out |-> out]

\* load_yaml_file (lines 16-26); result is the parsed document or None
LoadYamlFile(file) ==
    CASE file.kind \in {"missing", "nodir"} ->
             Returns(None, <<Msg("File not found", file.name)>>)
      [] file.kind = "badyaml" ->
             Returns(None, <<Msg("YAML parsing error", file.name)>>)
      [] file.kind = "unreadable" -> Raises("PermissionError", <<>>)
      [] OTHER -> Returns(file.doc, <<>>)

(***************************************************************************)
(* A schema file is [kind, schema]: kind "missing" (FileNotFoundError),    *)
(* "badjson" (JSONDecodeError) or "json".  A loaded schema variable is     *)
(* [loaded, schema]; loaded = FALSE is Python's None.                      *)
(***************************************************************************)

SchemaFile(kind, schema) == [kind |-> kind, schema |-> schema]

NoSchema == [loaded |-> FALSE, schema |-> EmptySchema]

Loaded(schema) == [loaded |-> TRUE, schema |-> schema]

\* load_local_odps_schema (lines 28-43)
LoadLocalOdpsSchema(schema_file) ==
    CASE schema_file.kind = "json" ->
             Returns(Loaded(schema_file.schema),
                     <<Msg("Local ODPS schema loaded", NoFile)>>)
      [] schema_file.kind = "missing" ->
             Returns(NoSchema,
                     <<Msg("ODPS schema file not found", NoFile),
                       Msg("Please download from", NoFile),
                       Msg("Convert to JSON", NoFile)>>)
      [] OTHER ->
             Returns(NoSchema,
                     <<Msg("JSON parsing error in ODPS schema", NoFile)>>)

NoOdcsSchemaHelp ==
    <<Msg("No ODCS schema file found", NoFile),
      Msg("- ODCS bitol-io", NoFile),
      Msg("- Data Contract", NoFile),
      Msg("Save as", NoFile)>>

\* load_local_odcs_schema (lines 45-68): the one path of the loop
LoadLocalOdcsSchema(schema_file) ==
    CASE schema_file.kind = "json" ->
             Returns(Loaded(schema_file.schema),
                     <<Msg("Local ODCS schema loaded", NoFile)>>)
      [] schema_file.kind = "missing" -> Returns(NoSchema, NoOdcsSchemaHelp)
      [] OTHER ->
             Returns(NoSchema,
                     <<Msg("JSON parsing error in", NoFile)>>
                     \o NoOdcsSchemaHelp)

\* validate_odps_file (lines 70-94)
ValidateOdpsFile(odps_file, odps_schema, best) ==
    LET head == <<Msg("Validating ODPS file", odps_file.name)>>
        load == LoadYamlFile(odps_file)
        v == Validate(load.result, odps_schema.schema, best)
    IN  IF load.raised # "" THEN Raises(load.raised, head \o load.out)
        ELSE IF load.result.t = "none" THEN Returns(FALSE, head \o load.out)
        ELSE CASE v.kind = "ok" ->
                      Returns(TRUE, head \o
                          <<Msg("ODPS validation successful", odps_file.name)>>)
               [] v.kind = "ValidationError" ->
                      Returns(FALSE, head \o
                          <<Msg("ODPS validation error in", odps_file.name),
                            MsgError(odps_file.name, v.error),
                            MsgFailedPath(odps_file.name, v.error)>>
                          \o (IF MessageHasRequired(v.error)
                              THEN <<Msg("Tip", NoFile)>> ELSE <<>>))
               [] OTHER ->
                      Returns(FALSE, head \o <<Msg("Schema error", NoFile)>>)

\* Python's  key in value: a key of a mapping, a substring of a string, an
\* element of a list; any other value raises TypeError
PyIn(key, value) ==
    CASE value.t = "map" -> IF key \in Keys(value) THEN "yes" ELSE "no"
      [] value.t = "str" ->
             IF Contains(value.s, KeyChars(key)) THEN "yes" ELSE "no"
      [] value.t = "list" ->
             IF \E i \in DOMAIN value.items :
                    value.items[i] = StrV(KeyChars(key))
             THEN "yes" ELSE "no"
      [] OTHER -> "TypeError"

\* Python's  value[key]  for a string key: KeyError on a mapping without
\* the key, TypeError on any value that is no mapping
PyItem(value, key) ==
    IF value.t # "map" THEN [raised |-> "TypeError", value |-> None]
    ELSE IF key \notin Keys(value) THEN [raised |-> "KeyError", value |-> None]
    ELSE [raised |-> "", value |-> value.m[key]]

required_sections == <<"dataContractSpecification", "id", "info">>

\* lines 143-146: the first section the loop misses ("" when none), or the
\* TypeError of its test
RECURSIVE FirstMissingSection(_, _)
FirstMissingSection(contract_data, sections) ==
    IF sections = <<>> THEN [raised |-> "", section |-> ""]
    ELSE LET in == PyIn(Head(sections), contract_data)
         IN  CASE in = "TypeError" ->
                      [raised |-> "TypeError", section |-> ""]
               [] in = "no" -> [raised |-> "", section |-> Head(sections)]
               [] OTHER -> FirstMissingSection(contract_data, Tail(sections))

\* line 151: not isinstance(version, str) or not version.startswith('v')
VersionWarned(version) ==
    version.t # "str" \/ ~StartsWith(version.s, <<"v">>)

\* lines 148-152, reached with every section "in" contract_data
VersionCheck(contract_data, file_path) ==
    LET in_info == PyIn("info", contract_data)
        info == PyItem(contract_data, "info")
        in_version == PyIn("version", info.value)
        version == PyItem(info.value, "version")
    IN  IF in_info = "TypeError" THEN Raises("TypeError", <<>>)
        ELSE IF in_info = "no" THEN Returns(TRUE, <<>>)
        ELSE IF info.raised # "" THEN Raises(info.raised, <<>>)
        ELSE IF in_version = "TypeError" THEN Raises("TypeError", <<>>)
        ELSE IF in_version = "no" THEN Returns(TRUE, <<>>)
        ELSE IF version.raised # "" THEN Raises(version.raised, <<>>)
        ELSE IF VersionWarned(version.value)
        THEN Returns(TRUE, <<Msg("Version should follow", file_path)>>)
        ELSE Returns(TRUE, <<>>)

\* validate_odcs_structure (lines 139-154)
ValidateOdcsStructure(contract_data, file_path) ==
    LET missing == FirstMissingSection(contract_data, required_sections)
    IN  IF missing.raised # "" THEN Raises(missing.raised, <<>>)
        ELSE IF missing.section # ""
        THEN Returns(FALSE, <<[tag |-> "Missing required section",
                               file |-> file_path, path |-> <<>>,
                               key |-> missing.section]>>)
        ELSE VersionCheck(contract_data, file_path)

\* lines 131-135: the structure check of one loaded contract
StructureStep(contract_data, contract_file) ==
    LET st == ValidateOdcsStructure(contract_data, contract_file.name)
    IN  IF st.raised # "" THEN Raises(st.raised, st.out)
        ELSE IF ~st.result THEN Returns(FALSE, st.out)
        ELSE Returns(TRUE, st.out \o
                 <<Msg("ODCS contract structure valid", contract_file.name)>>)

\* lines 119-129: the schema validation of one loaded contract; result is
\* whether the loop goes on to the structure check
SchemaStep(contract_data, contract_file, odcs_schema, best) ==
    LET v == Validate(contract_data, odcs_schema.schema, best)
    IN  IF ~(odcs_schema.loaded /\ Truthy(odcs_schema.schema))
        THEN Returns(TRUE, <<>>)
        ELSE CASE v.kind = "ok" ->
                      Returns(TRUE,
                          <<Msg("ODCS schema validation passed",
                                contract_file.name)>>)
               [] v.kind = "ValidationError" ->
                      Returns(FALSE,
                          <<Msg("ODCS schema validation error in",
                                contract_file.name),
                            MsgError(contract_file.name, v.error),
                            MsgFailedPath(contract_file.name, v.error)>>)
               [] OTHER -> Raises("SchemaError", <<>>)

\* lines 112-135: one pass of the loop body; result is whether the file
\* leaves all_valid alone
ContractBody(contract_file, odcs_schema, best) ==
    LET head == <<Msg("Validating ODCS contract", contract_file.name)>>
        load == LoadYamlFile(contract_file)
        sch == SchemaStep(load.result, contract_file, odcs_schema, best)
        st == StructureStep(load.result, contract_file)
    IN  IF load.raised # "" THEN Raises(load.raised, head \o load.out)
        ELSE IF load.result.t = "none" THEN Returns(FALSE, head \o load.out)
        ELSE IF sch.raised # "" THEN Raises(sch.raised, head \o sch.out)
        ELSE IF ~sch.result THEN Returns(FALSE, head \o sch.out)
        ELSE IF st.raised # "" THEN Raises(st.raised, head \o sch.out \o st.out)
        ELSE Returns(st.result, head \o sch.out \o st.out)

(***************************************************************************)
(* State                                                                   *)
(***************************************************************************)
VARIABLES
    \* the naming checker called on its own
    npc,            \* "idle", "call" or "returned"
    n_has_dir,      \* whether <base_dir>/contracts exists
    n_contracts,    \* the file names directly under <base_dir>/contracts
    n_root,         \* the file names directly under <base_dir>
    n_issues,       \* the issues list of check_file_naming_conventions
    n_result,       \* its return value
    \* what the validation script reads
    odps_schema_file,   \* .github/scripts/odps-schema-v4.0.json
    odcs_schema_file,   \* .github/scripts/odcs-bitol-schema-v3.0.json
    root_dir,           \* the entries directly under the repository root
    contracts_exists,   \* whether <root>/contracts exists
    contracts_dir,      \* the entries directly under <root>/contracts
    \* main() of the validation script
    pc,                 \* "start", "odps", "contracts", "naming", "final",
                        \* "exited", "crashed"; "off" when main is not run
    odps_schema,
    odcs_schema,
    validation_success,
    console,            \* what has been printed
    exit_code,          \* -1 while the process runs
    uncaught,           \* the exception that ended the process, or ""
    \* validate_odcs_contracts
    w_pc,               \* "idle", "call", "loop", "returned", "raised"
    yaml_files,
    idx,                \* the position of the loop in yaml_files
    all_valid,
    w_result,           \* the value returned
    w_raised,           \* the exception that escaped, or ""
    \* what the contract editor reads and writes
    e_schema_file,      \* .github/scripts/odcs-bitol-schema-v3.0.json
    e_disk,             \* the contract file at the path entered
    e_disk0,            \* the contract file as it was when main() started
    \* main() of the contract editor
    e_pc,               \* "idle", "start", "edit", "validate", "decide",
                        \* "done", "crashed"
    schema,             \* the schema load_schema returned
    data,               \* the mapping being edited
    e_idx,              \* the position of edit_contract in the properties
    entered,            \* the answers given so far: <<key, type, text>>
    e_valid,            \* what validate_contract returned: "", "true", "false"
    e_console,          \* what the editor has printed
    e_uncaught,         \* the exception that ended the editor, or ""
    e_saved,            \* save_contract: "" while not called, "saved", or
                        \* the exception it raised
    \* one validator call on one instance and one schema
    s_pc,               \* "idle", "call", "returned", "raised"
    s_instance,
    s_schema,
    s_fn,               \* the function called
    s_result,
    s_console

nmVars == <<npc, n_has_dir, n_contracts, n_root, n_issues, n_result>>

envVars == <<odps_schema_file, odcs_schema_file, root_dir, contracts_exists,
             contracts_dir>>

mainVars == <<pc, odps_schema, validation_success, exit_code, uncaught>>

walkVars == <<w_pc, yaml_files, idx, all_valid, w_result, w_raised>>

edVars == <<e_schema_file, e_disk, e_disk0, e_pc, schema, data, e_idx,
            entered, e_valid, e_console, e_uncaught, e_saved>>

schVars == <<s_pc, s_instance, s_schema, s_fn, s_result, s_console>>

valVars == <<envVars, mainVars, odcs_schema, console, walkVars>>

vars == <<nmVars, valVars, edVars, schVars>>

(***************************************************************************)
(* check_file_naming_conventions                                           *)
(*                                                                         *)
(* A directory is the sequence of the names the operating system lists,    *)
(* in its order.  Path.glob("*.yaml") keeps the names ending in ".yaml".   *)
(***************************************************************************)

GlobYaml(listing) == SelectSeq(listing, LAMBDA f : EndsWith(f, YamlExt))

GlobYml(listing) == SelectSeq(listing, LAMBDA f : EndsWith(f, YmlExt))

\* line 169: the test that appends a "Contract file naming" issue
ContractNameFlagged(filename) ==
    ~(Contains(filename, DashV) /\ Count(filename, "-") >= 2)

\* line 175: the test that appends a "Root YAML file" issue
RootNameFlagged(filename) == ~IsLower(filename)

ContractIssue(filename) == [kind |-> "contract", filename |-> filename]

RootIssue(filename) == [kind |-> "root", filename |-> filename]

\* lines 163-170: the loop over contracts_dir.glob("*.yaml")
RECURSIVE ContractLoop(_)
ContractLoop(files) ==
    IF files = <<>> THEN <<>>
    ELSE (IF ContractNameFlagged(Head(files))
          THEN <<ContractIssue(Head(files))>> ELSE <<>>)
         \o ContractLoop(Tail(files))

ContractIssues(has_dir, contracts) ==
    IF has_dir THEN ContractLoop(GlobYaml(contracts)) ELSE <<>>

\* lines 172-176: the loop over base_path.glob("*.yaml")
RECURSIVE RootLoop(_)
RootLoop(files) ==
    IF files = <<>> THEN <<>>
    ELSE (IF RootNameFlagged(Head(files))
          THEN <<RootIssue(Head(files))>> ELSE <<>>)
         \o RootLoop(Tail(files))

RootIssues(root) == RootLoop(GlobYaml(root))

\* the issues list and the value returned
CheckFileNamingConventions(has_dir, contracts, root) ==
    LET issues == ContractIssues(has_dir, contracts) \o RootIssues(root)
    IN  [issues |-> issues, result |-> (issues = <<>>)]

(***************************************************************************)
(* The naming checker on its own: every directory content within the      *)
(* bounds, then one call.                                                  *)
(***************************************************************************)

MaxListing == 2

ContractNames ==
    { <<"c">> \o YamlExt,                                  \* c.yaml
      <<"b", "-", "d", "-", "v", "1">> \o YamlExt,         \* b-d-v1.yaml
      <<"a", "-", "v", "1">> \o YamlExt,                   \* a-v1.yaml
      <<"a", "-", "b", "-", "c">> \o YamlExt,              \* a-b-c.yaml
      <<"a", "-", "b", "v", "1">> \o YamlExt,              \* a-bv1.yaml
      <<"c">> \o YmlExt,                                   \* c.yml
      <<"b", "-", "d", "-", "v", "1">> \o YmlExt,          \* b-d-v1.yml
      <<"r", "-", "m", "-", "v", "1", ".", "m", "d">> }    \* r-m-v1.md

RootNames ==
    { <<"d", "a", "t", "a">> \o YamlExt,                   \* data.yaml
      <<"D", "a", "t", "a">> \o YamlExt,                   \* Data.yaml
      <<"1", "2">> \o YamlExt,                             \* 12.yaml
      <<"M", "k">> \o YmlExt,                              \* Mk.yml
      <<"m", "k">> \o YmlExt,                              \* mk.yml
      <<"R", "E", "A", "D", ".", "m", "d">> }              \* READ.md

\* the listings of at most n names out of pool, in every order
Listings(pool, n) ==
    { s \in UNION { [1..k -> pool] : k \in 0..n } :
        \A i, j \in 1..Len(s) : i # j => s[i] # s[j] }

NamingIdle ==
    /\ npc = "idle"
    /\ n_has_dir = FALSE
    /\ n_contracts = <<>>
    /\ n_root = <<>>
    /\ n_issues = <<>>
    /\ n_result = FALSE

NamingStart ==
    /\ npc = "call"
    /\ n_has_dir \in BOOLEAN
    /\ n_contracts \in Listings(ContractNames, MaxListing)
    /\ (~n_has_dir => n_contracts = <<>>)
    /\ n_root \in Listings(RootNames, MaxListing)
    /\ n_issues = <<>>
    /\ n_result = FALSE

NamingCall ==
    /\ npc = "call"
    /\ LET r == CheckFileNamingConventions(n_has_dir, n_contracts, n_root)
       IN  /\ n_issues' = r.issues
           /\ n_result' = r.result
    /\ npc' = "returned"
    /\ UNCHANGED <<n_has_dir, n_contracts, n_root>>
    /\ UNCHANGED <<valVars, edVars, schVars>>

(***************************************************************************)
(* validate_odcs_contracts (lines 96-137), one action per step             *)
(***************************************************************************)

Names(entries) == [i \in DOMAIN entries |-> entries[i].name]

EntriesYaml(entries) == SelectSeq(entries, LAMBDA f : EndsWith(f.name, YamlExt))

EntriesYml(entries) == SelectSeq(entries, LAMBDA f : EndsWith(f.name, YmlExt))

\* line 104
ListYamlFiles(entries) == EntriesYaml(entries) \o EntriesYml(entries)

\* lines 98-110: up to the loop
ContractsEnter ==
    /\ w_pc = "call"
    /\ IF ~contracts_exists
       THEN /\ console' = Append(console,
                              Msg("Contracts directory not found", NoFile))
            /\ w_result' = FALSE
            /\ w_pc' = "returned"
            /\ UNCHANGED <<yaml_files, idx, all_valid>>
       ELSE IF ListYamlFiles(contracts_dir) = <<>>
       THEN /\ console' = Append(console, Msg("No YAML files found", NoFile))
            /\ w_result' = TRUE
            /\ w_pc' = "returned"
            /\ yaml_files' = <<>>
            /\ UNCHANGED <<idx, all_valid>>
       ELSE /\ yaml_files' = ListYamlFiles(contracts_dir)
            /\ all_valid' = TRUE
            /\ idx' = 1
            /\ w_pc' = "loop"
            /\ UNCHANGED <<console, w_result>>
    /\ UNCHANGED <<nmVars, envVars, mainVars, odcs_schema, w_raised>>
    /\ UNCHANGED <<edVars, schVars>>

\* lines 111-135: one pass of the loop
ContractsLoop ==
    /\ w_pc = "loop"
    /\ idx <= Len(yaml_files)
    /\ \E best \in Choices(yaml_files[idx].doc, odcs_schema.schema) :
           LET r == ContractBody(yaml_files[idx], odcs_schema, best)
           IN  /\ console' = console \o r.out
               /\ IF r.raised # ""
                  THEN /\ w_raised' = r.raised
                       /\ w_pc' = "raised"
                       /\ UNCHANGED <<idx, all_valid>>
                  ELSE /\ all_valid' = (all_valid /\ r.result)
                       /\ idx' = idx + 1
                       /\ UNCHANGED <<w_pc, w_raised>>
    /\ UNCHANGED <<nmVars, envVars, mainVars, odcs_schema, yaml_files,
                   w_result>>
    /\ UNCHANGED <<edVars, schVars>>

\* line 137
ContractsReturn ==
    /\ w_pc = "loop"
    /\ idx > Len(yaml_files)
    /\ w_result' = all_valid
    /\ w_pc' = "returned"
    /\ UNCHANGED <<nmVars, envVars, mainVars, odcs_schema, console,
                   yaml_files, idx, all_valid, w_raised>>
    /\ UNCHANGED <<edVars, schVars>>

(***************************************************************************)
(* main (lines 187-240)                                                    *)
(***************************************************************************)

DataproductYaml ==
    <<"d", "a", "t", "a", "p", "r", "o", "d", "u", "c", "t">> \o YamlExt

HasEntry(entries, name) == \E i \in DOMAIN entries : entries[i].name = name

Entry(entries, name) ==
    entries[CHOOSE i \in DOMAIN entries : entries[i].name = name]

\* Path.exists(): the entry is there and is no dangling link
Exists(entries, name) ==
    /\ HasEntry(entries, name)
    /\ Entry(entries, name).kind \notin {"missing", "nodir"}

\* an uncaught exception: the traceback goes to stderr, the status is 1
Crash(exception) ==
    /\ pc' = "crashed"
    /\ uncaught' = exception
    /\ exit_code' = 1

\* lines 189-210: the banner and the two schema loads
MainLoadSchemas ==
    /\ pc = "start"
    /\ LET banner == <<Msg("Starting ODPS/ODCS validation", NoFile),
                       Msg("=====", NoFile)>>
           odps == LoadLocalOdpsSchema(odps_schema_file)
           odcs == LoadLocalOdcsSchema(odcs_schema_file)
       IN  IF ~odps.result.loaded
           THEN /\ console' = console \o banner \o odps.out
                              \o <<Msg("Could not load ODPS schema", NoFile)>>
                /\ odps_schema' = odps.result
                /\ exit_code' = 1
                /\ pc' = "exited"
                /\ UNCHANGED odcs_schema
           ELSE /\ console' = console \o banner \o odps.out \o odcs.out
                              \o (IF ~odcs.result.loaded
                                  THEN <<Msg("No ODCS schema found", NoFile)>>
                                  ELSE <<>>)
                /\ odps_schema' = odps.result
                /\ odcs_schema' = odcs.result
                /\ pc' = "odps"
                /\ UNCHANGED exit_code
    /\ UNCHANGED <<nmVars, envVars, validation_success, uncaught, walkVars>>
    /\ UNCHANGED <<edVars, schVars>>

\* lines 212-223: step 2, up to the call of validate_odcs_contracts
MainValidateOdps ==
    /\ pc = "odps"
    /\ IF ~Exists(root_dir, DataproductYaml)
       THEN /\ console' = console
                          \o <<Msg("ODPS file not found", DataproductYaml),
                               Msg("-----", NoFile)>>
            /\ validation_success' = FALSE
            /\ pc' = "contracts"
            /\ w_pc' = "call"
            /\ UNCHANGED <<exit_code, uncaught>>
       ELSE \E best \in Choices(Entry(root_dir, DataproductYaml).doc,
                                  odps_schema.schema) :
            LET r == ValidateOdpsFile(Entry(root_dir, DataproductYaml),
                                      odps_schema, best)
            IN  IF r.raised # ""
                THEN /\ console' = console \o r.out
                     /\ Crash(r.raised)
                     /\ UNCHANGED <<validation_success, w_pc>>
                ELSE /\ console' = console \o r.out \o <<Msg("-----", NoFile)>>
                     /\ validation_success' = (validation_success /\ r.result)
                     /\ pc' = "contracts"
                     /\ w_pc' = "call"
                     /\ UNCHANGED <<exit_code, uncaught>>
    /\ UNCHANGED <<nmVars, envVars, odps_schema, odcs_schema, yaml_files, idx,
                   all_valid, w_result, w_raised>>
    /\ UNCHANGED <<edVars, schVars>>

\* lines 223-226: validate_odcs_contracts has returned, or raised
MainAfterContracts ==
    /\ pc = "contracts"
    /\ w_pc \in {"returned", "raised"}
    /\ IF w_pc = "raised"
       THEN /\ Crash(w_raised)
            /\ UNCHANGED <<validation_success, console>>
       ELSE /\ validation_success' = (validation_success /\ w_result)
            /\ console' = Append(console, Msg("-----", NoFile))
            /\ pc' = "naming"
            /\ UNCHANGED <<exit_code, uncaught>>
    /\ UNCHANGED <<nmVars, envVars, odps_schema, odcs_schema, walkVars>>
    /\ UNCHANGED <<edVars, schVars>>

\* what check_file_naming_conventions prints (lines 158, 178-184)
NamingOut(r) ==
    <<Msg("Checking naming conventions", NoFile)>>
    \o (IF r.result
        THEN <<Msg("Naming conventions are consistent", NoFile)>>
        ELSE <<Msg("Naming convention issues found", NoFile)>>
             \o [i \in DOMAIN r.issues |->
                    Msg(r.issues[i].kind, r.issues[i].filename)])

\* line 230: what the naming check does to validation_success
AfterNaming(success, naming_ok) == success /\ naming_ok

\* lines 228-232: step 4
MainNaming ==
    /\ pc = "naming"
    /\ LET r == CheckFileNamingConventions(contracts_exists,
                                           Names(contracts_dir),
                                           Names(root_dir))
       IN  /\ console' = console \o NamingOut(r) \o <<Msg("=====", NoFile)>>
           /\ validation_success' = AfterNaming(validation_success, r.result)
    /\ pc' = "final"
    /\ UNCHANGED <<nmVars, envVars, odps_schema, odcs_schema, exit_code,
                   uncaught, walkVars>>
    /\ UNCHANGED <<edVars, schVars>>

\* lines 234-240
MainExit ==
    /\ pc = "final"
    /\ IF validation_success
       THEN /\ console' = Append(console,
                              Msg("All validations passed", NoFile))
            /\ exit_code' = 0
       ELSE /\ console' = Append(console, Msg("Validation failed", NoFile))
            /\ exit_code' = 1
    /\ pc' = "exited"
    /\ UNCHANGED <<nmVars, envVars, odps_schema, odcs_schema,
                   validation_success, uncaught, walkVars>>
    /\ UNCHANGED <<edVars, schVars>>

(***************************************************************************)
(* The documents, schemas and directories the runs are checked on          *)
(***************************************************************************)

V1 == <<"v", "1">>

OneDotZero == <<"1", ".", "0">>

\* a complete contract, version "v1"
DocFull ==
    MapV([k \in {"dataContractSpecification", "id", "info"} |->
            IF k = "info" THEN MapV([j \in {"version"} |-> StrV(V1)])
            ELSE StrV(<<"x">>)])

\* version "1.0": no leading v
DocBadVersion ==
    MapV([k \in {"dataContractSpecification", "id", "info"} |->
            IF k = "info" THEN MapV([j \in {"version"} |-> StrV(OneDotZero)])
            ELSE StrV(<<"x">>)])

\* version 1: a number
DocIntVersion ==
    MapV([k \in {"dataContractSpecification", "id", "info"} |->
            IF k = "info" THEN MapV([j \in {"version"} |-> IntV(1)])
            ELSE StrV(<<"x">>)])

\* no "info"
DocNoInfo ==
    MapV([k \in {"dataContractSpecification", "id"} |-> StrV(<<"x">>)])

\* no "id"
DocNoId ==
    MapV([k \in {"dataContractSpecification", "info"} |->
            IF k = "info" THEN MapV([j \in {"version"} |-> StrV(V1)])
            ELSE StrV(<<"x">>)])

\* info: "version 1", a string where a mapping is expected
DocStringInfo ==
    MapV([k \in {"dataContractSpecification", "id", "info"} |->
            IF k = "info" THEN StrV(KeyChars("version") \o <<" ", "1">>)
            ELSE StrV(<<"x">>)])

\* {"type": "object", "required": ["id"],
\*  "properties": {"info": {"type": "object"}}}
OdcsSchema ==
    Schema("object", <<"id">>, << <<"info", Schema("object", <<>>, <<>>)>> >>)

\* {"title": "t"}: a document that constrains nothing
TitleSchema == Schema("absent", <<>>, <<>>)

\* {"type": "object", "required": ["product"],
\*  "properties": {"product": {"type": "object", "required": ["name"]}}}
OdpsSchema ==
    Schema("object", <<"product">>,
           << <<"product", Schema("object", <<"name">>, <<>>)>> >>)

ProductOk ==
    MapV([k \in {"product"} |-> MapV([j \in {"name"} |-> StrV(<<"x">>)])])

ProductNoName == MapV([k \in {"product"} |-> EmptyMap])

NameGood == <<"b", "-", "d", "-", "v", "1">> \o YamlExt

NameFlagged == <<"c">> \o YamlExt

NameYml == <<"c">> \o YmlExt

WalkNames == {NameGood, NameFlagged, NameYml}

\* what a contract file can hold
WalkContents ==
    { [kind |-> "missing", doc |-> None],
      [kind |-> "unreadable", doc |-> None],
      [kind |-> "badyaml", doc |-> None],
      [kind |-> "doc", doc |-> None],
      [kind |-> "doc", doc |-> DocFull],
      [kind |-> "doc", doc |-> DocBadVersion],
      [kind |-> "doc", doc |-> DocIntVersion],
      [kind |-> "doc", doc |-> DocNoInfo],
      [kind |-> "doc", doc |-> DocNoId],
      [kind |-> "doc", doc |-> DocStringInfo] }

MainContents ==
    { [kind |-> "badyaml", doc |-> None],
      [kind |-> "doc", doc |-> None],
      [kind |-> "doc", doc |-> DocFull],
      [kind |-> "doc", doc |-> DocNoInfo] }

MaxFiles == 2

\* the directories of at most n entries, named out of names, in every order
Directories(names, contents, n) ==
    { s \in UNION { [1..k -> { File(nm, c.kind, c.doc) :
                               nm \in names, c \in contents }] : k \in 0..n } :
        \A i, j \in 1..Len(s) : i # j => s[i].name # s[j].name }

\* what main() can hand to validate_odcs_contracts as odcs_schema
WalkSchemas ==
    {NoSchema, Loaded(OdcsSchema), Loaded(EmptySchema), Loaded(TitleSchema),
     Loaded(MalformedSchema)}

MainIdle ==
    /\ pc = "off"
    /\ odps_schema_file = SchemaFile("missing", EmptySchema)
    /\ odcs_schema_file = SchemaFile("missing", EmptySchema)
    /\ root_dir = <<>>
    /\ odps_schema = NoSchema
    /\ validation_success = TRUE
    /\ exit_code = -1
    /\ uncaught = ""

EditIdle ==
    /\ e_pc = "idle"
    /\ e_schema_file = SchemaFile("missing", EmptySchema)
    /\ e_disk = File(NoFile, "missing", None)
    /\ e_disk0 = File(NoFile, "missing", None)
    /\ schema = EmptySchema
    /\ data = EmptyMap
    /\ e_idx = 0
    /\ entered = <<>>
    /\ e_valid = ""
    /\ e_console = <<>>
    /\ e_uncaught = ""
    /\ e_saved = ""

SchemaIdle ==
    /\ s_pc = "idle"
    /\ s_instance = EmptyMap
    /\ s_schema = EmptySchema
    /\ s_fn = ""
    /\ s_result = FALSE
    /\ s_console = <<>>

WalkIdle ==
    /\ w_pc = "idle"
    /\ yaml_files = <<>>
    /\ idx = 0
    /\ all_valid = TRUE
    /\ w_result = FALSE
    /\ w_raised = ""

(***************************************************************************)
(* validate_odcs_contracts called on every directory within the bounds     *)
(***************************************************************************)

WalkInit ==
    /\ NamingIdle
    /\ EditIdle
    /\ SchemaIdle
    /\ MainIdle
    /\ contracts_exists \in BOOLEAN
    /\ contracts_dir \in Directories(WalkNames, WalkContents, MaxFiles)
    /\ (~contracts_exists => contracts_dir = <<>>)
    /\ odcs_schema \in WalkSchemas
    /\ console = <<>>
    /\ w_pc = "call"
    /\ yaml_files = <<>>
    /\ idx = 0
    /\ all_valid = TRUE
    /\ w_result = FALSE
    /\ w_raised = ""

WalkNext == ContractsEnter \/ ContractsLoop \/ ContractsReturn

SpecWalk == WalkInit /\ [][WalkNext]_vars

(***************************************************************************)
(* The naming checker called on every pair of listings within the bounds   *)
(***************************************************************************)

NamingInit ==
    /\ NamingStart
    /\ EditIdle
    /\ SchemaIdle
    /\ MainIdle
    /\ WalkIdle
    /\ contracts_exists = FALSE
    /\ contracts_dir = <<>>
    /\ odcs_schema = NoSchema
    /\ console = <<>>

NamingNext == NamingCall

SpecNaming == NamingInit /\ [][NamingNext]_vars

(***************************************************************************)
(* main() run on every repository within the bounds                        *)
(***************************************************************************)

OdpsSchemaFiles ==
    { SchemaFile("missing", EmptySchema),
      SchemaFile("badjson", EmptySchema),
      SchemaFile("json", OdpsSchema),
      SchemaFile("json", MalformedSchema) }

OdcsSchemaFiles ==
    { SchemaFile("missing", EmptySchema),
      SchemaFile("json", OdcsSchema),
      SchemaFile("json", MalformedSchema) }

\* what dataproduct.yaml can be; <<>> when the repository has none
OdpsEntries ==
    { <<>>,
      <<File(DataproductYaml, "missing", None)>>,
      <<File(DataproductYaml, "unreadable", None)>>,
      <<File(DataproductYaml, "doc", None)>>,
      <<File(DataproductYaml, "doc", ProductOk)>>,
      <<File(DataproductYaml, "doc", ProductNoName)>> }

\* the other root level files: none, or Data.yaml
OtherRootEntries ==
    { <<>>, <<File(<<"D", "a", "t", "a">> \o YamlExt, "doc", EmptyMap)>> }

MainInit ==
    /\ NamingIdle
    /\ EditIdle
    /\ SchemaIdle
    /\ WalkIdle
    /\ pc = "start"
    /\ odps_schema_file \in OdpsSchemaFiles
    /\ odcs_schema_file \in OdcsSchemaFiles
    /\ \E d \in OdpsEntries, o \in OtherRootEntries : root_dir = d \o o
    /\ contracts_exists \in BOOLEAN
    /\ contracts_dir \in Directories(WalkNames, MainContents, MaxFiles)
    /\ (~contracts_exists => contracts_dir = <<>>)
    /\ odps_schema = NoSchema
    /\ odcs_schema = NoSchema
    /\ validation_success = TRUE
    /\ console = <<>>
    /\ exit_code = -1
    /\ uncaught = ""

MainNext ==
    \/ MainLoadSchemas
    \/ MainValidateOdps
    \/ ContractsEnter
    \/ ContractsLoop
    \/ ContractsReturn
    \/ MainAfterContracts
    \/ MainNaming
    \/ MainExit

SpecMain == MainInit /\ [][MainNext]_vars

(***************************************************************************)
(* The contract editor: edit_contract.py                                   *)
(***************************************************************************)

DigitValue(c) == (CHOOSE i \in DOMAIN DigitSeq : DigitSeq[i] = c) - 1

IsDigits(s) == \A i \in DOMAIN s : s[i] \in DigitChars

RECURSIVE DigitsValue(_)
DigitsValue(s) ==
    IF s = <<>> THEN 0
    ELSE 10 * DigitsValue(SubSeq(s, 1, Len(s) - 1)) + DigitValue(s[Len(s)])

RECURSIVE Pow10(_)
Pow10(n) == IF n = 0 THEN 1 ELSE 10 * Pow10(n - 1)

\* the text without a leading sign, and the sign
Unsigned(s) == IF s # <<>> /\ Head(s) \in {"+", "-"} THEN Tail(s) ELSE s

Sign(s) == IF s # <<>> /\ Head(s) = "-" THEN -1 ELSE 1

\* the text without its underscores
NoUnderscores(s) ==
    LET kept == {p \in DOMAIN s : s[p] # "_"}
    IN  [i \in 1..Cardinality(kept) |->
            s[CHOOSE p \in kept :
                  Cardinality({q \in kept : q <= p}) = i]]

\* decimal digits, with single underscores between two digits
IsDigitPart(s) ==
    /\ s # <<>>
    /\ \A i \in DOMAIN s : s[i] \in DigitChars \cup {"_"}
    /\ s[1] # "_"
    /\ s[Len(s)] # "_"
    /\ \A i \in 1..(Len(s) - 1) : ~(s[i] = "_" /\ s[i + 1] = "_")

\* sys.get_int_max_str_digits(): the most digits int() converts
MaxStrDigits == 4300

\* int(text): surrounding whitespace, a sign, a digit part of at most
\* MaxStrDigits digits; ValueError otherwise
PyInt(text) ==
    LET body == Unsigned(NumberStrip(text))
    IN  IF IsDigitPart(body) /\ Len(NoUnderscores(body)) <= MaxStrDigits
        THEN [raised |-> "",
              value |-> IntV(Sign(NumberStrip(text))
                               * DigitsValue(NoUnderscores(body)))]
        ELSE [raised |-> "ValueError", value |-> None]

RECURSIVE Gcd(_, _)
Gcd(a, b) == IF b = 0 THEN a ELSE Gcd(b, a % b)

\* the float num / den in lowest terms
Rational(num, den) ==
    LET g == Gcd(IF num < 0 THEN -num ELSE num, den)
    IN  FloatV(num \div g, den \div g)

\* inf is FloatV(1, 0), -inf is FloatV(-1, 0), nan is FloatV(0, 0)
InfWords == {<<"i", "n", "f">>, <<"i", "n", "f", "i", "n", "i", "t", "y">>}

NanWord == <<"n", "a", "n">>

NoLeadingZeros(s) ==
    LET nonzero == {p \in DOMAIN s : s[p] # "0"}
    IN  IF nonzero = {} THEN <<>>
        ELSE SubSeq(s, CHOOSE p \in nonzero : \A q \in nonzero : p <= q,
                    Len(s))

\* -1, 0 or 1 as the digits a are below, equal to or above the digits b,
\* read from the left and filled up with zeros on the right
CompareDigits(a, b) ==
    LET n == IF Len(a) > Len(b) THEN Len(a) ELSE Len(b)
        DigitAt(s, i) == IF i <= Len(s) THEN DigitValue(s[i]) ELSE 0
        differ == {i \in 1..n : DigitAt(a, i) # DigitAt(b, i)}
        first == CHOOSE i \in differ : \A j \in differ : i <= j
    IN  IF differ = {} THEN 0
        ELSE IF DigitAt(a, first) < DigitAt(b, first) THEN -1
        ELSE 1

\* the decimal exponent of the largest binary64 float (1.79...e308) and of
\* half the smallest one (2.47...e-324)
MaxExp10 == 308

MinExp10 == -324

\* the digits of 2^1024 - 2^970, the least value that rounds to inf
OverflowDigits ==
    << "1", "7", "9", "7", "6", "9", "3", "1", "3", "4", "8", "6", "2", "3", "1", "5",
       "8", "0", "7", "9", "3", "7", "2", "8", "9", "7", "1", "4", "0", "5", "3", "0",
       "3", "4", "1", "5", "0", "7", "9", "9", "3", "4", "1", "3", "2", "7", "1", "0",
       "0", "3", "7", "8", "2", "6", "9", "3", "6", "1", "7", "3", "7", "7", "8", "9",
       "8", "0", "4", "4", "4", "9", "6", "8", "2", "9", "2", "7", "6", "4", "7", "5",
       "0", "9", "4", "6", "6", "4", "9", "0", "1", "7", "9", "7", "7", "5", "8", "7",
       "2", "0", "7", "0", "9", "6", "3", "3", "0", "2", "8", "6", "4", "1", "6", "6",
       "9", "2", "8", "8", "7", "9", "1", "0", "9", "4", "6", "5", "5", "5", "5", "4",
       "7", "8", "5", "1", "9", "4", "0", "4", "0", "2", "6", "3", "0", "6", "5", "7",
       "4", "8", "8", "6", "7", "1", "5", "0", "5", "8", "2", "0", "6", "8", "1", "9",
       "0", "8", "9", "0", "2", "0", "0", "0", "7", "0", "8", "3", "8", "3", "6", "7",
       "6", "2", "7", "3", "8", "5", "4", "8", "4", "5", "8", "1", "7", "7", "1", "1",
       "5", "3", "1", "7", "6", "4", "4", "7", "5", "7", "3", "0", "2", "7", "0", "0",
       "6", "9", "8", "5", "5", "5", "7", "1", "3", "6", "6", "9", "5", "9", "6", "2",
       "2", "8", "4", "2", "9", "1", "4", "8", "1", "9", "8", "6", "0", "8", "3", "4",
       "9", "3", "6", "4", "7", "5", "2", "9", "2", "7", "1", "9", "0", "7", "4", "1",
       "6", "8", "4", "4", "4", "3", "6", "5", "5", "1", "0", "7", "0", "4", "3", "4",
       "2", "7", "1", "1", "5", "5", "9", "6", "9", "9", "5", "0", "8", "0", "9", "3",
       "0", "4", "2", "8", "8", "0", "1", "7", "7", "9", "0", "4", "1", "7", "4", "4",
       "9", "7", "7", "9", "2" >>

\* the digits of 2^-1075 (those of 5^1075), the largest value that rounds
\* to 0.0
UnderflowDigits ==
    << "2", "4", "7", "0", "3", "2", "8", "2", "2", "9", "2", "0", "6", "2", "3", "2",
       "7", "2", "0", "8", "8", "2", "8", "4", "3", "9", "6", "4", "3", "4", "1", "1",
       "0", "6", "8", "6", "1", "8", "2", "5", "2", "9", "9", "0", "1", "3", "0", "7",
       "1", "6", "2", "3", "8", "2", "2", "1", "2", "7", "9", "2", "8", "4", "1", "2",
       "5", "0", "3", "3", "7", "7", "5", "3", "6", "3", "5", "1", "0", "4", "3", "7",
       "5", "9", "3", "2", "6", "4", "9", "9", "1", "8", "1", "8", "0", "8", "1", "7",
       "9", "9", "6", "1", "8", "9", "8", "9", "8", "2", "8", "2", "3", "4", "7", "7",
       "2", "2", "8", "5", "8", "8", "6", "5", "4", "6", "3", "3", "2", "8", "3", "5",
       "5", "1", "7", "7", "9", "6", "9", "8", "9", "8", "1", "9", "9", "3", "8", "7",
       "3", "9", "8", "0", "0", "5", "3", "9", "0", "9", "3", "9", "0", "6", "3", "1",
       "5", "0", "3", "5", "6", "5", "9", "5", "1", "5", "5", "7", "0", "2", "2", "6",
       "3", "9", "2", "2", "9", "0", "8", "5", "8", "3", "9", "2", "4", "4", "9", "1",
       "0", "5", "1", "8", "4", "4", "3", "5", "9", "3", "1", "8", "0", "2", "8", "4",
       "9", "9", "3", "6", "5", "3", "6", "1", "5", "2", "5", "0", "0", "3", "1", "9",
       "3", "7", "0", "4", "5", "7", "6", "7", "8", "2", "4", "9", "2", "1", "9", "3",
       "6", "5", "6", "2", "3", "6", "6", "9", "8", "6", "3", "6", "5", "8", "4", "8",
       "0", "7", "5", "7", "0", "0", "1", "5", "8", "5", "7", "6", "9", "2", "6", "9",
       "9", "0", "3", "7", "0", "6", "3", "1", "1", "9", "2", "8", "2", "7", "9", "5",
       "5", "8", "5", "5", "1", "3", "3", "2", "9", "2", "7", "8", "3", "4", "3", "3",
       "8", "4", "0", "9", "3", "5", "1", "9", "7", "8", "0", "1", "5", "5", "3", "1",
       "2", "4", "6", "5", "9", "7", "2", "6", "3", "5", "7", "9", "5", "7", "4", "6",
       "2", "2", "7", "6", "6", "4", "6", "5", "2", "7", "2", "8", "2", "7", "2", "2",
       "0", "0", "5", "6", "3", "7", "4", "0", "0", "6", "4", "8", "5", "4", "9", "9",
       "9", "7", "7", "0", "9", "6", "5", "9", "9", "4", "7", "0", "4", "5", "4", "0",
       "2", "0", "8", "2", "8", "1", "6", "6", "2", "2", "6", "2", "3", "7", "8", "5",
       "7", "3", "9", "3", "4", "5", "0", "7", "3", "6", "3", "3", "9", "0", "0", "7",
       "9", "6", "7", "7", "6", "1", "9", "3", "0", "5", "7", "7", "5", "0", "6", "7",
       "4", "0", "1", "7", "6", "3", "2", "4", "6", "7", "3", "6", "0", "0", "9", "6",
       "8", "9", "5", "1", "3", "4", "0", "5", "3", "5", "5", "3", "7", "4", "5", "8",
       "5", "1", "6", "6", "6", "1", "1", "3", "4", "2", "2", "3", "7", "6", "6", "6",
       "7", "8", "6", "0", "4", "1", "6", "2", "1", "5", "9", "6", "8", "0", "4", "6",
       "1", "9", "1", "4", "4", "6", "7", "2", "9", "1", "8", "4", "0", "3", "0", "0",
       "5", "3", "0", "0", "5", "7", "5", "3", "0", "8", "4", "9", "0", "4", "8", "7",
       "6", "5", "3", "9", "1", "7", "1", "1", "3", "8", "6", "5", "9", "1", "6", "4",
       "6", "2", "3", "9", "5", "2", "4", "9", "1", "2", "6", "2", "3", "6", "5", "3",
       "8", "8", "1", "8", "7", "9", "6", "3", "6", "2", "3", "9", "3", "7", "3", "2",
       "8", "0", "4", "2", "3", "8", "9", "1", "0", "1", "8", "6", "7", "2", "3", "4",
       "8", "4", "9", "7", "6", "6", "8", "2", "3", "5", "0", "8", "9", "8", "6", "3",
       "3", "8", "8", "5", "8", "7", "9", "2", "5", "6", "2", "8", "3", "0", "2", "7",
       "5", "5", "9", "9", "5", "6", "5", "7", "5", "2", "4", "4", "5", "5", "5", "0",
       "7", "2", "5", "5", "1", "8", "9", "3", "1", "3", "6", "9", "0", "8", "3", "6",
       "2", "5", "4", "7", "7", "9", "1", "8", "6", "9", "4", "8", "6", "6", "7", "9",
       "9", "4", "9", "6", "8", "3", "2", "4", "0", "4", "9", "7", "0", "5", "8", "2",
       "1", "0", "2", "8", "5", "1", "3", "1", "8", "5", "4", "5", "1", "3", "9", "6",
       "2", "1", "3", "8", "3", "7", "7", "2", "2", "8", "2", "6", "1", "4", "5", "4",
       "3", "7", "6", "9", "3", "4", "1", "2", "5", "3", "2", "0", "9", "8", "5", "9",
       "1", "3", "2", "7", "6", "6", "7", "2", "3", "6", "3", "2", "8", "1", "2", "5" >>

\* float(text): surrounding whitespace, a sign, then inf, infinity or nan
\* in any case, or digit parts around at most one point with an optional
\* exponent; ValueError otherwise.  A text that rounds to inf or to 0.0
\* gives that; any other gives the decimal it denotes, not rounded to
\* binary64.
PyFloat(text) ==
    LET body == Unsigned(NumberStrip(text))
        sign == Sign(NumberStrip(text))
        es == {i \in DOMAIN body : body[i] \in {"e", "E"}}
        e == IF es = {} THEN Len(body) + 1
             ELSE CHOOSE i \in es : \A j \in es : i <= j
        mant == SubSeq(body, 1, e - 1)
        expo == SubSeq(body, e + 1, Len(body))
        dots == {i \in DOMAIN mant : mant[i] = "."}
        dot == IF dots = {} THEN Len(mant) + 1
               ELSE CHOOSE i \in dots : \A j \in dots : i <= j
        whole == SubSeq(mant, 1, dot - 1)
        frac == SubSeq(mant, dot + 1, Len(mant))
        literal ==
            /\ whole = <<>> \/ IsDigitPart(whole)
            /\ frac = <<>> \/ IsDigitPart(frac)
            /\ whole # <<>> \/ frac # <<>>
            /\ es # {} => IsDigitPart(Unsigned(expo))
        fdigits == NoUnderscores(frac)
        digits == NoLeadingZeros(NoUnderscores(whole) \o fdigits)
        x == (IF es = {} THEN 0
              ELSE Sign(expo) * DigitsValue(NoUnderscores(Unsigned(expo))))
             - Len(fdigits)
        \* the value is d.ddd * 10^m
        m == Len(digits) + x - 1
        underflow ==
            \/ digits = <<>>
            \/ m < MinExp10
            \/ m = MinExp10 /\ CompareDigits(digits, UnderflowDigits) <= 0
        overflow ==
            \/ m > MaxExp10
            \/ m = MaxExp10 /\ CompareDigits(digits, OverflowDigits) >= 0
    IN  IF Lower(body) \in InfWords
        THEN [raised |-> "", value |-> FloatV(sign, 0)]
        ELSE IF Lower(body) = NanWord
        THEN [raised |-> "", value |-> FloatV(0, 0)]
        ELSE IF ~literal THEN [raised |-> "ValueError", value |-> None]
        ELSE IF underflow
        THEN [raised |-> "", value |-> FloatV(0, 1)]
        ELSE IF overflow
        THEN [raised |-> "", value |-> FloatV(sign, 0)]
        ELSE [raised |-> "",
              value |-> Rational(sign * DigitsValue(digits)
                                      * Pow10(IF x > 0 THEN x ELSE 0),
                                 Pow10(IF x < 0 THEN -x ELSE 0))]

TrueWords == {<<"t", "r", "u", "e">>, <<"y", "e", "s">>, <<"1">>}

\* line 46
PyBool(text) == BoolV(Lower(text) \in TrueWords)

\* line 53: [item.strip() for item in items.split(",")]
PyItems(text) ==
    LET pieces == SplitComma(text)
    IN  ListV([i \in DOMAIN pieces |-> StrV(Strip(pieces[i]))])

\* data[key] = value
SetItem(mapping, key, value) ==
    MapV([k \in Keys(mapping) \cup {key} |->
            IF k = key THEN value ELSE mapping.m[k]])

\* line 32: isinstance(props.get("type"), str)
TypeIsStr(props) == props.type # "absent"

\* lines 38-46: what an answer does to data, under the first branch
Coerce(mapping, key, props, new_val) ==
    CASE new_val = <<>> -> [raised |-> "", data |-> mapping, out |-> <<>>]
      [] props.type = "string" ->
             [raised |-> "", data |-> SetItem(mapping, key, StrV(new_val)),
              out |-> <<>>]
      [] props.type = "number" ->
             IF PyFloat(new_val).raised # ""
             THEN [raised |-> "ValueError", data |-> mapping, out |-> <<>>]
             ELSE [raised |-> "",
                   data |-> SetItem(mapping, key, PyFloat(new_val).value),
                   out |-> <<>>]
      [] props.type = "integer" ->
             IF PyInt(new_val).raised # ""
             THEN [raised |-> "ValueError", data |-> mapping, out |-> <<>>]
             ELSE [raised |-> "",
                   data |-> SetItem(mapping, key, PyInt(new_val).value),
                   out |-> <<>>]
      [] props.type = "boolean" ->
             [raised |-> "", data |-> SetItem(mapping, key, PyBool(new_val)),
              out |-> <<>>]
      [] OTHER -> [raised |-> "", data |-> mapping, out |-> <<>>]

\* bool(value)
PyTruthy(value) ==
    CASE value.t = "none" -> FALSE
      [] value.t = "str" -> value.s # <<>>
      [] value.t = "int" -> value.n # 0
      [] value.t = "float" -> value.n # 0 \/ value.d = 0
      [] value.t = "bool" -> value.b
      [] value.t = "list" -> value.items # <<>>
      [] OTHER -> Keys(value) # {}

\* line 31: data.get(key, "")
Current(mapping, key) ==
    IF key \in Keys(mapping) THEN mapping.m[key] ELSE StrV(<<>>)

\* lines 47-53: the branch for lists, taken when the first test fails and
\* props.get("type") == "array"
ArrayBranch(mapping, key, props, items) ==
    LET out == <<Msg("Editing list field", NoFile)>>
               \o (IF PyTruthy(Current(mapping, key))
                   THEN <<Msg("Current items", NoFile)>> ELSE <<>>)
    IN  IF items = <<>>
        THEN [raised |-> "", data |-> mapping, out |-> out]
        ELSE [raised |-> "", data |-> SetItem(mapping, key, PyItems(items)),
              out |-> out]

\* whether the loop body asks the operator anything (lines 32, 47)
Prompts(props) == TypeIsStr(props) \/ props.type = "array"

\* lines 31-53: one pass of the loop of edit_contract, given the answer
EditProperty(mapping, key, props, answer) ==
    IF mapping.t # "map"
    THEN [raised |-> "AttributeError", data |-> mapping, out |-> <<>>]
    ELSE IF TypeIsStr(props) THEN Coerce(mapping, key, props, answer)
    ELSE IF props.type = "array" THEN ArrayBranch(mapping, key, props, answer)
    ELSE [raised |-> "", data |-> mapping, out |-> <<>>]

\* validate_contract (lines 58-66)
ValidateContract(instance, sch, best) ==
    LET v == Validate(instance, sch, best)
    IN  CASE v.kind = "ok" ->
                 Returns(TRUE, <<Msg("Contract is valid", NoFile)>>)
          [] v.kind = "ValidationError" ->
                 Returns(FALSE, <<[tag |-> "Validation error", file |-> NoFile,
                                   path |-> <<>>, key |-> v.error.key],
                                  [tag |-> "at", file |-> NoFile,
                                   path |-> v.error.path, key |-> ""]>>)
          [] OTHER -> Raises("SchemaError", <<>>)

\* load_schema (lines 12-14)
LoadSchema(schema_file) ==
    CASE schema_file.kind = "json" -> Returns(schema_file.schema, <<>>)
      [] schema_file.kind = "missing" -> Raises("FileNotFoundError", <<>>)
      [] OTHER -> Raises("JSONDecodeError", <<>>)

\* load_contract (lines 17-24)
LoadContract(file) ==
    CASE file.kind \in {"missing", "nodir"} ->
             Returns(EmptyMap, <<Msg("No existing contract found", NoFile)>>)
      [] file.kind = "unreadable" -> Raises("PermissionError", <<>>)
      [] file.kind = "badyaml" ->
             Raises("YAMLError", <<Msg("Loaded existing contract", NoFile)>>)
      [] OTHER ->
             Returns(file.doc, <<Msg("Loaded existing contract", NoFile)>>)

EditCrash(exception) ==
    /\ e_pc' = "crashed"
    /\ e_uncaught' = exception

\* lines 75-84: the schema, the path, the contract
EditStart ==
    /\ e_pc = "start"
    /\ LET sch == LoadSchema(e_schema_file)
           con == LoadContract(e_disk)
       IN  IF sch.raised # ""
           THEN /\ EditCrash(sch.raised)
                /\ UNCHANGED <<schema, data, e_idx, e_console>>
           ELSE IF con.raised # ""
           THEN /\ EditCrash(con.raised)
                /\ schema' = sch.result
                /\ e_console' = e_console \o con.out
                /\ UNCHANGED <<data, e_idx>>
           ELSE /\ schema' = sch.result
                /\ data' = con.result
                /\ e_console' = e_console \o con.out
                /\ e_idx' = 1
                /\ e_pc' = "edit"
                /\ UNCHANGED e_uncaught
    /\ UNCHANGED <<e_schema_file, e_disk, e_disk0, entered, e_valid, e_saved>>
    /\ UNCHANGED <<nmVars, valVars, schVars>>

\* what the operator can type at a prompt
Answers ==
    { <<>>,                                   \* just Enter
      <<"a", "b", "c">>,
      <<"1", "2">>,
      <<"1", ".", "5">>,
      <<"Y", "e", "s">>,
      <<"n", "o">>,
      <<"a", ",", " ", "b">>,
      <<"a", ",", "\t", "b", "\n">>,
      <<"1", "_", "0">>,
      <<"1", "e", "3">>,
      <<"\t", "i", "n", "f">>,
      <<"\\x1c", "1">> }

\* lines 30-53: one pass of the loop of edit_contract
EditStep ==
    /\ e_pc = "edit"
    /\ e_idx <= Len(schema.properties)
    /\ LET key == schema.properties[e_idx][1]
           props == schema.properties[e_idx][2]
       IN  \E answer \in (IF Prompts(props) /\ data.t = "map"
                          THEN Answers ELSE {<<>>}) :
               LET r == EditProperty(data, key, props, answer)
               IN  /\ entered' =
                          (IF Prompts(props) /\ data.t = "map"
                           THEN Append(entered, [key |-> key,
                                                 type |-> props.type,
                                                 text |-> answer])
                           ELSE entered)
                   /\ e_console' = e_console \o r.out
                   /\ IF r.raised # ""
                      THEN /\ EditCrash(r.raised)
                           /\ UNCHANGED <<data, e_idx>>
                      ELSE /\ data' = r.data
                           /\ e_idx' = e_idx + 1
                           /\ UNCHANGED <<e_pc, e_uncaught>>
    /\ UNCHANGED <<e_schema_file, e_disk, e_disk0, schema, e_valid, e_saved>>
    /\ UNCHANGED <<nmVars, valVars, schVars>>

\* line 88: edit_contract has returned; validate_contract
EditValidate ==
    /\ e_pc = "edit"
    /\ e_idx > Len(schema.properties)
    /\ \E best \in Choices(data, schema) :
           LET r == ValidateContract(data, schema, best)
           IN  /\ e_console' = e_console \o r.out
               /\ IF r.raised # ""
                  THEN /\ EditCrash(r.raised)
                       /\ UNCHANGED e_valid
                  ELSE /\ e_valid' = (IF r.result THEN "true" ELSE "false")
                       /\ e_pc' = "decide"
                       /\ UNCHANGED e_uncaught
    /\ UNCHANGED <<e_schema_file, e_disk, e_disk0, schema, data, e_idx,
                   entered, e_saved>>
    /\ UNCHANGED <<nmVars, valVars, schVars>>

\* a main() that saves whatever validate_contract returned
ShouldSaveAlways(valid) == TRUE

\* line 88: the test that guards save_contract
ShouldSave(valid) == valid = "true"

\* save_contract (lines 69-72): result is the file after the call
SaveContract(file, mapping) ==
    CASE file.kind = "nodir" -> Raises("FileNotFoundError", <<>>)
      [] file.kind = "readonly" -> Raises("PermissionError", <<>>)
      [] OTHER -> Returns(File(file.name, "doc", mapping),
                          <<Msg("Contract saved to", NoFile)>>)

\* lines 88-91, and save_contract
EditDecide ==
    /\ e_pc = "decide"
    /\ IF ShouldSave(e_valid)
       THEN LET r == SaveContract(e_disk, data)
            IN  /\ e_console' = e_console \o r.out
                /\ IF r.raised # ""
                   THEN /\ EditCrash(r.raised)
                        /\ e_saved' = r.raised
                        /\ UNCHANGED e_disk
                   ELSE /\ e_disk' = r.result
                        /\ e_saved' = "saved"
                        /\ e_pc' = "done"
                        /\ UNCHANGED e_uncaught
       ELSE /\ e_console' = Append(e_console,
                                Msg("Contract is invalid", NoFile))
            /\ e_pc' = "done"
            /\ UNCHANGED <<e_disk, e_saved, e_uncaught>>
    /\ UNCHANGED <<e_schema_file, e_disk0, schema, data, e_idx, entered,
                   e_valid>>
    /\ UNCHANGED <<nmVars, valVars, schVars>>

(***************************************************************************)
(* The editor run on every schema, contract file and sequence of answers   *)
(* within the bounds                                                       *)
(***************************************************************************)

MaxProps == 2

\* the properties a schema can declare, in document order
PropertyPool ==
    << <<"name", Schema("string", <<>>, <<>>)>>,
       <<"count", Schema("integer", <<>>, <<>>)>>,
       <<"ratio", Schema("number", <<>>, <<>>)>>,
       <<"active", Schema("boolean", <<>>, <<>>)>>,
       <<"tags", Schema("array", <<>>, <<>>)>>,
       <<"meta", Schema("object", <<>>, <<>>)>>,
       <<"misc", Schema("absent", <<>>, <<>>)>> >>

\* the properties of the pool at the positions in chosen, in pool order
RECURSIVE PickFrom(_, _)
PickFrom(chosen, i) ==
    IF i > Len(PropertyPool) THEN <<>>
    ELSE (IF i \in chosen THEN <<PropertyPool[i]>> ELSE <<>>)
         \o PickFrom(chosen, i + 1)

PropertyLists ==
    { PickFrom(chosen, 1) :
        chosen \in { c \in SUBSET DOMAIN PropertyPool :
                        Cardinality(c) <= MaxProps } }

EditorSchemas ==
    { Schema("object", required, properties) :
        required \in {<<>>, <<"name">>, <<"tags">>},
        properties \in PropertyLists }

EditorSchemaFiles ==
    { SchemaFile("json", sch) : sch \in EditorSchemas }
    \cup { SchemaFile("json", MalformedSchema),
           SchemaFile("missing", EmptySchema),
           SchemaFile("badjson", EmptySchema) }

ContractPath == <<"c", "-", "k", "-", "v", "1">> \o YamlExt

Abc == <<"a", "b", "c">>

\* the contract file at the path the operator enters
EditorDisks ==
    { File(ContractPath, "missing", None),
      File(ContractPath, "nodir", None),
      File(ContractPath, "readonly", MapV([k \in {"name"} |-> StrV(<<"x">>)])),
      File(ContractPath, "badyaml", None),
      File(ContractPath, "doc", None),
      File(ContractPath, "doc", MapV([k \in {"name"} |-> StrV(<<"x">>)])),
      File(ContractPath, "doc",
           MapV([k \in {"name", "count"} |-> StrV(Abc)])),
      File(ContractPath, "doc",
           MapV([k \in {"name", "tags"} |->
                   IF k = "tags" THEN ListV(<<StrV(<<"x">>)>>)
                   ELSE StrV(<<"x">>)])) }

EditInit ==
    /\ NamingIdle
    /\ MainIdle
    /\ WalkIdle
    /\ SchemaIdle
    /\ contracts_exists = FALSE
    /\ contracts_dir = <<>>
    /\ odcs_schema = NoSchema
    /\ console = <<>>
    /\ e_pc = "start"
    /\ e_schema_file \in EditorSchemaFiles
    /\ e_disk \in EditorDisks
    /\ e_disk0 = e_disk
    /\ schema = EmptySchema
    /\ data = EmptyMap
    /\ e_idx = 0
    /\ entered = <<>>
    /\ e_valid = ""
    /\ e_console = <<>>
    /\ e_uncaught = ""
    /\ e_saved = ""

EditNext == EditStart \/ EditStep \/ EditValidate \/ EditDecide

SpecEdit == EditInit /\ [][EditNext]_vars

(***************************************************************************)
(* validate_odps_file and validate_contract called on every instance and   *)
(* schema within the bounds                                                *)
(***************************************************************************)

MaxRequired == 2

TopKeys == {"id", "info", "name"}

\* "info" is a key of the mapping under "info" too
InfoKeys == {"version", "info"}

\* what the mapping under "info" can hold under "sub"
SubValues == {None, EmptyMap, MapV([k \in {"version"} |-> StrV(<<"x">>)])}

\* the value None stands for a key that is absent
InfoMap(ks, sub) ==
    MapV([k \in ks \cup (IF sub = None THEN {} ELSE {"sub"}) |->
            IF k = "sub" THEN sub ELSE StrV(<<"x">>)])

InfoValues ==
    { InfoMap(ks, sub) : ks \in SUBSET InfoKeys, sub \in SubValues }
    \cup { StrV(<<"x">>), StrV(Required) }

NameValues == {StrV(<<"x">>), IntV(5)}

Instances ==
    { MapV([k \in ks |-> CASE k = "info" -> iv
                           [] k = "name" -> nv
                           [] OTHER -> StrV(<<"x">>)]) :
        ks \in SUBSET TopKeys, iv \in InfoValues, nv \in NameValues }

\* the required lists of at most n keys out of keys
RequiredLists(keys, n) ==
    { r \in UNION { [1..k -> keys] : k \in 0..n } :
        \A i, j \in 1..Len(r) : i # j => r[i] # r[j] }

\* "properties" of the mapping under "info": none, or
\* {"sub": {"type": "object", "required": ["version"]}}
SubProperties ==
    { <<>>, << <<"sub", Schema("object", <<"version">>, <<>>)>> >> }

\* {"type": "object", "required": [...]}, with its "properties"
InfoSchemas ==
    { Schema("object", nested, subs) :
        nested \in RequiredLists(InfoKeys, MaxRequired),
        subs \in SubProperties }

\* {"type": "object", "required": [...],
\*  "properties": {"name": {"type": "string"}, "info": {...}}}, with and
\* without "name"
InstanceSchemas ==
    { Schema("object", required, names \o << <<"info", info>> >>) :
        required \in RequiredLists(TopKeys, MaxRequired),
        names \in { <<>>, << <<"name", Schema("string", <<>>, <<>>)>> >> },
        info \in InfoSchemas }
    \cup {MalformedSchema}

SchemaInit ==
    /\ NamingIdle
    /\ MainIdle
    /\ WalkIdle
    /\ EditIdle
    /\ contracts_exists = FALSE
    /\ contracts_dir = <<>>
    /\ odcs_schema = NoSchema
    /\ console = <<>>
    /\ s_pc = "call"
    /\ s_instance \in Instances
    /\ s_schema \in InstanceSchemas
    /\ s_fn \in {"validate_odps_file", "validate_contract"}
    /\ s_result = FALSE
    /\ s_console = <<>>

\* validate_odps_file on a dataproduct.yaml that holds the instance
CallValidateOdpsFile ==
    /\ s_pc = "call"
    /\ s_fn = "validate_odps_file"
    /\ \E best \in Choices(s_instance, s_schema) :
           LET r == ValidateOdpsFile(File(DataproductYaml, "doc", s_instance),
                                     Loaded(s_schema), best)
           IN  /\ s_console' = r.out
               /\ s_result' = r.result
               /\ s_pc' = (IF r.raised # "" THEN "raised" ELSE "returned")
    /\ UNCHANGED <<s_instance, s_schema, s_fn>>
    /\ UNCHANGED <<nmVars, valVars, edVars>>

\* validate_contract on the instance
CallValidateContract ==
    /\ s_pc = "call"
    /\ s_fn = "validate_contract"
    /\ \E best \in Choices(s_instance, s_schema) :
           LET r == ValidateContract(s_instance, s_schema, best)
           IN  /\ s_console' = r.out
               /\ s_result' = r.result
               /\ s_pc' = (IF r.raised # "" THEN "raised" ELSE "returned")
    /\ UNCHANGED <<s_instance, s_schema, s_fn>>
    /\ UNCHANGED <<nmVars, valVars, edVars>>

SchemaNext == CallValidateOdpsFile \/ CallValidateContract

SpecSchema == SchemaInit /\ [][SchemaNext]_vars

(***************************************************************************)
(* Properties of the validation script                                     *)
(***************************************************************************)

Printed(tag, file) ==
    \E i \in DOMAIN console : console[i].tag = tag /\ console[i].file = file

Terminated == pc \in {"exited", "crashed"}

\* the run was a full validation success: the ODPS schema loaded,
\* dataproduct.yaml exists and validate_odps_file returned true, and
\* validate_odcs_contracts returned true
FullSuccess ==
    /\ odps_schema.loaded
    /\ Exists(root_dir, DataproductYaml)
    /\ Printed("ODPS validation successful", DataproductYaml)
    /\ w_pc = "returned"
    /\ w_result

\* C1: main() ends with exit code 0 or 1, and with 0 exactly when the ODPS
\* schema loaded, dataproduct.yaml exists and passed validate_odps_file, and
\* validate_odcs_contracts returned true.
C1_ExitCodeIsFullSuccess ==
    Terminated =>
        /\ exit_code \in {0, 1}
        /\ (exit_code = 0 <=> FullSuccess)

\* C2: naming convention violations are never fatal: the naming step of
\* main() leaves the validation outcome as it found it, whatever
\* check_file_naming_conventions returns.
C2_NamingNeverFatal ==
    [][pc = "naming" => validation_success' = validation_success]_vars

WalkEnded == w_pc \in {"returned", "raised"}

\* the *.yaml and *.yml entries directly under the contracts directory
DirYamlFiles ==
    {contracts_dir[i] : i \in {j \in DOMAIN contracts_dir :
        \/ EndsWith(contracts_dir[j].name, YamlExt)
        \/ EndsWith(contracts_dir[j].name, YmlExt)}}

\* the loop took the file up, and found it good
Checked(file) == Printed("Validating ODCS contract", file.name)

Passed(file) == Printed("ODCS contract structure valid", file.name)

\* C3: for an existing directory validate_odcs_contracts checks every
\* *.yaml and *.yml file, also after a file has failed, and returns true
\* exactly when every one of them passed (true when there is none).
C3_WalkerChecksAllAndAggregates ==
    (WalkEnded /\ contracts_exists) =>
        /\ w_pc = "returned"
        /\ \A f \in DirYamlFiles : Checked(f)
        /\ (w_result <=> \A f \in DirYamlFiles : Passed(f))

\* the ODPS document was loaded and handed to jsonschema.validate
OdpsValidated ==
    /\ pc \notin {"start", "odps"}
    /\ Exists(root_dir, DataproductYaml)
    /\ LoadYamlFile(Entry(root_dir, DataproductYaml)).raised = ""
    /\ LoadYamlFile(Entry(root_dir, DataproductYaml)).result.t # "none"

\* C4: a malformed schema (SchemaError) is reported on the console and ends
\* that validation run with a failure result, in validate_odps_file and in
\* validate_odcs_contracts; it never escapes as an uncaught exception.
C4_SchemaErrorReported ==
    /\ (OdpsValidated /\ odps_schema.schema.malformed) =>
           (Printed("Schema error", NoFile) /\ ~validation_success)
    /\ w_raised # "SchemaError"
    /\ uncaught # "SchemaError"

\* the console lines that report an error about a file
FileErrorTags ==
    {"File not found", "YAML parsing error", "ODPS validation error in",
     "ODCS schema validation error in", "Missing required section",
     "ODPS file not found"}

ErrorReported(file) ==
    \E i \in DOMAIN console :
        console[i].tag \in FileErrorTags /\ console[i].file = file.name

\* the files the loop of validate_odcs_contracts is through with
Done ==
    {yaml_files[i] : i \in {j \in DOMAIN yaml_files : j < idx}}

\* C5: whenever load_yaml_file returns None for a file (missing, failing to
\* parse, or parsing to nothing), an error naming the file is reported, and
\* validate_odcs_contracts goes on to the remaining files.
C5_LoadFailureReported ==
    \A f \in Done :
        (LoadYamlFile(f).raised = "" /\ LoadYamlFile(f).result.t = "none") =>
            /\ ErrorReported(f)
            /\ w_pc \in {"loop", "returned", "raised"}

\* the files the loop has taken up
Reached ==
    {yaml_files[i] : i \in {j \in DOMAIN yaml_files : j <= idx}}

HasAllSections(doc) ==
    /\ doc.t = "map"
    /\ {"dataContractSpecification", "id", "info"} \subseteq Keys(doc)

SchemaAvailable == odcs_schema.loaded /\ Truthy(odcs_schema.schema)

\* what C10 says of a contract file
ShouldPass(file) ==
    /\ file.kind = "doc"
    /\ file.doc.t # "none"
    /\ SchemaAvailable => IterErrors(file.doc, odcs_schema.schema) = <<>>
    /\ HasAllSections(file.doc)

\* C10: a contract file counts as passed exactly when it loaded, satisfies
\* the ODCS schema if one is available, and its top level mapping has the
\* keys dataContractSpecification, id and info; the version format only
\* warns.  The walker returns true exactly when every file is such a file.
C10_ContractPassesExactly ==
    WalkEnded =>
        /\ \A f \in Reached : Passed(f) <=> ShouldPass(f)
        /\ (w_pc = "returned" /\ contracts_exists) =>
               (w_result <=> \A f \in DirYamlFiles : ShouldPass(f))

(***************************************************************************)
(* Properties of the naming checker                                        *)
(***************************************************************************)

IsYamlName(name) == EndsWith(name, YamlExt) \/ EndsWith(name, YmlExt)

HasVersionToken(name) ==
    \E i \in 1..(Len(name) - 1) : name[i] = "-" /\ name[i + 1] = "v"

Hyphens(name) == Cardinality({i \in DOMAIN name : name[i] = "-"})

AllLowercase(name) == \A i \in DOMAIN name : name[i] \notin UpperChars

Flagged(kind, name) ==
    \E i \in DOMAIN n_issues :
        n_issues[i].kind = kind /\ n_issues[i].filename = name

\* C6: check_file_naming_conventions flags a contract file exactly when its
\* name lacks a version token or has fewer than two hyphens, flags a root
\* level YAML file exactly when its name is not all lowercase, and returns
\* true exactly when it flagged nothing, for every YAML file of contracts/
\* and of the root directory.
C6_NamingFlagsExactly ==
    npc = "returned" =>
        /\ \A i \in DOMAIN n_contracts :
               IsYamlName(n_contracts[i]) =>
                   (Flagged("contract", n_contracts[i])
                    <=> (~HasVersionToken(n_contracts[i])
                         \/ Hyphens(n_contracts[i]) < 2))
        /\ \A i \in DOMAIN n_root :
               IsYamlName(n_root[i]) =>
                   (Flagged("root", n_root[i]) <=> ~AllLowercase(n_root[i]))
        /\ (n_result <=> n_issues = <<>>)

(***************************************************************************)
(* Properties of the validator on one instance                             *)
(***************************************************************************)

Elements(seq) == {seq[i] : i \in DOMAIN seq}

\* the keys a schema requires and the value lacks, at every depth
RECURSIVE MissingKeys(_, _)
MissingKeys(value, sch) ==
    IF value.t # "map" THEN {}
    ELSE (Elements(sch.required) \ Keys(value))
         \cup UNION { MissingKeys(value.m[sch.properties[i][1]],
                                  sch.properties[i][2]) :
                        i \in {j \in DOMAIN sch.properties :
                                  sch.properties[j][1] \in Keys(value)} }

SomeMissing ==
    ~s_schema.malformed /\ MissingKeys(s_instance, s_schema) # {}

\* the lines that report the path of the validation error
PathLines ==
    {i \in DOMAIN s_console : s_console[i].tag \in {"Failed path", "at"}}

\* C7: for every instance missing a field its schema requires, the
\* validator returns failure and the path it reports includes the key of
\* the missing field.
C7_PathIncludesMissingKey ==
    (s_pc = "returned" /\ SomeMissing) =>
        /\ ~s_result
        /\ \E i \in PathLines :
               \E k \in MissingKeys(s_instance, s_schema) :
                   k \in Elements(s_console[i].path)

(***************************************************************************)
(* Properties of the contract editor                                       *)
(***************************************************************************)

EditPrinted(tag) == \E i \in DOMAIN e_console : e_console[i].tag = tag

\* C8: the editor writes the contract file if and only if the edited
\* mapping passes validation: save_contract is called exactly when
\* validate_contract returned true, and when validation fails or the run
\* ends with an error the file is as it was.  A save the file system
\* refuses is a call of save_contract that raises and leaves the file alone.
C8_SavesExactlyWhenValid ==
    /\ e_saved # "" => e_valid = "true"
    /\ e_pc \in {"done", "crashed"} => (e_saved # "" <=> e_valid = "true")
    /\ e_valid # "true" =>
           (e_disk = e_disk0 /\ ~EditPrinted("Contract saved to"))
    /\ e_pc = "crashed" =>
           (e_disk = e_disk0 /\ ~EditPrinted("Contract saved to"))
    /\ e_disk # e_disk0 => e_saved = "saved"
    /\ e_saved = "saved" <=> EditPrinted("Contract saved to")
    /\ e_saved = "saved" => e_disk = File(e_disk0.name, "doc", data)

\* answers were stored, validation failed, and the file was left alone
C8_Witness ==
    /\ e_pc = "done"
    /\ e_valid = "false"
    /\ \E i \in DOMAIN entered : entered[i].text # <<>>
    /\ e_disk0.kind = "doc"
    /\ data # e_disk0.doc
    /\ e_disk = e_disk0

CoercedTypes == {"string", "number", "integer", "boolean", "array"}

\* the text is a literal of the declared type
Convertible(type, text) ==
    CASE type = "number" -> PyFloat(text).raised = ""
      [] type = "integer" -> PyInt(text).raised = ""
      [] OTHER -> TRUE

\* what C9 says is stored for an answer
Expected(type, text) ==
    CASE type = "string" -> StrV(text)
      [] type = "number" -> PyFloat(text).value
      [] type = "integer" -> PyInt(text).value
      [] type = "boolean" -> BoolV(Lower(text) \in TrueWords)
      [] OTHER -> PyItems(text)

\* C9: for every top level property the non-empty answer is coerced to the
\* declared type and stored under its key: string as entered, number as
\* float, integer as int, boolean as true for true/yes/1, and for an array
\* the list of the stripped comma separated items.
C9_AnswersCoercedAndStored ==
    \A i \in DOMAIN entered :
        (/\ entered[i].text # <<>>
         /\ entered[i].type \in CoercedTypes
         /\ Convertible(entered[i].type, entered[i].text)) =>
            /\ entered[i].key \in Keys(data)
            /\ data.m[entered[i].key]
                   = Expected(entered[i].type, entered[i].text)

====
